---- MODULE Spec2Model ----
(***************************************************************************)
(* Model of hmf/wdm.py: the WDM model family (WDM, Viel05), the registry   *)
(* get_wdm, and the two adapters TransferWDM and MassFunctionWDM whose     *)
(* derived quantities (_wdm, _lnP_0, dndm) are memoised by the             *)
(* parameter / cached_property layer.                                      *)
(*                                                                         *)
(* Floating point values are kept as terms: a record naming the operation  *)
(* and its operands, so that two values are equal exactly when they were   *)
(* computed the same way from the same inputs.  Literal floats are scaled  *)
(* by 100 (1.12 is 112) or by 1000 (0.049 is 49) and say so where used.    *)
(***************************************************************************)
EXTENDS Integers, FiniteSets, Sequences, TLC

\* ------------------------------------------------------------------ bounds
MaxMass == 1      \* wdm_mass / mx is drawn from 1..MaxMass and the default
MaxOff == 1       \* base parameters that differ from their defaults at one time
MaxGrid == 2      \* points of the wavenumber grid lnk and of the mass grid M

DefaultMass == 3  \* wdm_mass=3.0

\* ------------------------------------------------------------- exceptions
None == [none |-> TRUE]
Exc(type, msg) == [type |-> type, msg |-> msg]
Ok(v) == [err |-> None, val |-> v]
Raise(e) == [err |-> e, val |-> None]

\* --------------------------------------------------------- value domains
Masses == (1..MaxMass) \cup {DefaultMass}
Cosmo == {1, 2}                 \* two distinct values of a base parameter
Grid == 1..MaxGrid

\* objects that can be handed to wdm_transfer or found in the module
Class(n) == [kind |-> "class", name |-> n]
Str(s) == [kind |-> "str", name |-> s]
Module(n) == [kind |-> "module", name |-> n]
Function(n) == [kind |-> "function", name |-> n]
Number(n) == [kind |-> "num", num |-> n]
NoneObj == [kind |-> "NoneType", name |-> "None"]

\* class WDM(object), class Viel05(WDM)
WDMClasses == {"WDM", "Viel05"}

\* WDM._defaults = {} ; Viel05._defaults = {"mu":1.12, "g_x":1.5}  (x100)
WDM_defaults == [k \in {} |-> 0]
Viel05_defaults == [mu |-> 112, g_x |-> 150]
ClassDefaults == [WDM |-> WDM_defaults, Viel05 |-> Viel05_defaults]

\* keyword names a caller may put in a model-parameter mapping
ParamKeySets == {{}, {"mu"}, {"g_x"}, {"foo"}, {"name"}, {"mu", "g_x"}}
ParamVals == {500}
ParamDicts == UNION {[S -> ParamVals] : S \in ParamKeySets}

\* dict.update / copy.copy on mappings
DictUpdate(d, e) == [k \in (DOMAIN d) \cup (DOMAIN e) |-> IF k \in DOMAIN e THEN e[k] ELSE d[k]]
DictCopy(d) == [k \in DOMAIN d |-> d[k]]

\* a floating point expression, kept as a term, and a numpy array of them
T(op, args) == [op |-> op, args |-> args]
Array(f) == [data |-> f]

\* ------------------------------------------------------------ WDM models
\* self.params = copy.copy(self._defaults); self.params.update(model_params)
\* returns the instance's mapping and the class-level mappings afterwards
Gather_alias(cls, model_params, D) ==
    LET u == DictUpdate(D[cls], model_params)
    IN [params |-> u, defaults |-> [D EXCEPT ![cls] = u]]

Gather(cls, model_params, D) ==
    [params |-> DictUpdate(DictCopy(D[cls]), model_params), defaults |-> D]

\* WDM.__init__(self, mx, omegac, h, rho_mean, **model_params), inherited by
\* Viel05.  D holds the class attributes _defaults; the result is the outcome
\* of the call and the class attributes after it.
WDM_init(cls, mx, omegac, h, rho_mean, model_params, D) ==
    LET bad == {k \in DOMAIN model_params : k \notin DOMAIN D[cls]}
        g == Gather(cls, model_params, D)
    IN IF bad # {}
       THEN [res |-> Raise(Exc("ValueError",
                        [text |-> "is not a valid argument for the WDM model",
                         key |-> CHOOSE k \in bad : TRUE, cls |-> cls])),
             defaults |-> D]
       ELSE [res |-> Ok([cls |-> cls, mx |-> mx, omegac |-> omegac, h |-> h,
                         rho_mean |-> rho_mean, params |-> g.params]),
             defaults |-> g.defaults]

\* Viel05.lam_eff_fs:
\*  0.049 * mx ** -1.11 * (omegac / 0.25) ** 0.11 * (h / 0.7) ** 1.22
\*        * (1.5 / params['g_x']) ** 0.29        (floats x100, 0.049 x1000)
lam_eff_fs(self) ==
    T("mul", <<49,
               T("pow", <<self.mx, -111>>),
               T("pow", <<T("div", <<self.omegac, 25>>), 11>>),
               T("pow", <<T("div", <<self.h, 70>>), 122>>),
               T("pow", <<T("div", <<150, self.params["g_x"]>>), 29>>)>>)

\* Viel05.lam_hm: 2*pi*lam_eff_fs * (2 ** (mu / 5) - 1) ** (-0.5 / mu)
lam_hm(self) ==
    T("mul", <<2, "pi", lam_eff_fs(self),
               T("pow", <<T("sub", <<T("pow", <<2, T("div", <<self.params["mu"], 500>>)>>), 1>>),
                          T("div", <<-50, self.params["mu"]>>)>>)>>)

\* Viel05.m_fs: (4.0 / 3.0) * pi * rho_mean * (lam_eff_fs / 2) ** 3
m_fs(self) ==
    T("mul", <<T("div", <<4, 3>>), "pi", self.rho_mean,
               T("pow", <<T("div", <<lam_eff_fs(self), 2>>), 3>>)>>)

\* Viel05.m_hm: (4.0 / 3.0) * pi * rho_mean * (lam_hm / 2) ** 3 ; the abstract
\* WDM has no such attribute
m_hm(self) ==
    IF self.cls = "Viel05"
    THEN Ok(T("mul", <<T("div", <<4, 3>>), "pi", self.rho_mean,
                       T("pow", <<T("div", <<lam_hm(self), 2>>), 3>>)>>))
    ELSE Raise(Exc("AttributeError", [text |-> "object has no attribute", key |-> "m_hm"]))

\* Viel05.transfer at one wavenumber:
\*  (1 + (lam_eff_fs * exp(lnk)) ** (2 * mu)) ** (-5.0 / mu)
Viel05_transfer_at(self, lnk_i) ==
    T("pow", <<T("add", <<1, T("pow", <<T("mul", <<lam_eff_fs(self), T("exp", <<lnk_i>>)>>),
                                        T("mul", <<2, self.params["mu"]>>)>>)>>),
               T("div", <<-500, self.params["mu"]>>)>>)

\* WDM.transfer is `pass` (returns None); Viel05.transfer maps the grid
transfer(self, lnk) ==
    IF self.cls = "Viel05"
    THEN Array([i \in DOMAIN lnk.data |-> Viel05_transfer_at(self, lnk.data[i])])
    ELSE None

\* ----------------------------------------------------------- the registry
\* what getattr(sys.modules[__name__], name) finds: the imports and the
\* definitions of the module whose call with the constructor's keywords is
\* decided by this file or by the language
ModuleNamespace ==
    [copy |-> Module("copy"), sys |-> Module("sys"), np |-> Module("numpy"),
     get_wdm |-> Function("get_wdm"),
     WDM |-> Class("WDM"), Viel05 |-> Class("Viel05")]

NotValidWDM(name) == Exc("AttributeError", [text |-> "is not a valid WDM class", key |-> name])

\* get_wdm that hands mx and rho_mean over in each other's place
get_wdm_swapped(name, mx, omegac, h, rho_mean, model_params, D) ==
    IF "name" \in DOMAIN model_params
    THEN [res |-> Raise(Exc("TypeError", [text |-> "multiple values for keyword argument", key |-> "name"])),
          defaults |-> D]
    ELSE IF name \notin WDMClasses
    THEN [res |-> Raise(NotValidWDM(name)), defaults |-> D]
    ELSE WDM_init(name, rho_mean, omegac, h, mx, model_params, D)

\* calling what getattr found with the constructor's keywords
call_found(obj, name, mx, omegac, h, rho_mean, model_params, D) ==
    IF obj.kind = "class"
    THEN WDM_init(obj.name, mx, omegac, h, rho_mean, model_params, D)
    ELSE IF obj.kind = "module"
    THEN [res |-> Raise(Exc("TypeError", [text |-> "'module' object is not callable", key |-> name])),
          defaults |-> D]
    ELSE [res |-> Raise(Exc("TypeError", [text |-> "unexpected keyword arguments", key |-> name])),
          defaults |-> D]

\* except AttributeError: raise AttributeError(str(name) + "  is not a valid WDM class")
except_AttributeError(name, made) ==
    IF made.res.err # None /\ made.res.err.type = "AttributeError"
    THEN [res |-> Raise(NotValidWDM(name)), defaults |-> made.defaults]
    ELSE made

\* get_wdm(name, **kwargs): getattr(sys.modules[__name__], name)(**kwargs)
get_wdm(name, mx, omegac, h, rho_mean, model_params, D) ==
    IF "name" \in DOMAIN model_params
    THEN [res |-> Raise(Exc("TypeError", [text |-> "multiple values for keyword argument", key |-> "name"])),
          defaults |-> D]
    ELSE IF name \notin DOMAIN ModuleNamespace
    THEN [res |-> Raise(NotValidWDM(name)), defaults |-> D]
    ELSE except_AttributeError(name,
             call_found(ModuleNamespace[name], name, mx, omegac, h, rho_mean, model_params, D))

\* ------------------------------------------------- the base frameworks
\* Transfer.lnk, the wavenumber grid, and MassFunction.M, the mass grid
lnk == Array([i \in Grid |-> i])
M == Array([j \in Grid |-> 10 * j])

\* Transfer._lnP_0 for the parameters p: the CDM log power on lnk
Transfer_lnP_0(p) ==
    Array([i \in Grid |-> T("lnP_cdm", <<p.sigma_8, p.omegac, p.h, lnk.data[i]>>)])

\* MassFunction.dndm, built on the instance's _lnP_0 and on M
MassFunction_dndm(lnP) ==
    Array([j \in Grid |-> T("dndm_cdm", <<lnP, M.data[j]>>)])

\* what the base quantities are declared to depend on
Transfer_lnP_0_parents == {"sigma_8", "omegac", "h"}
MassFunction_dndm_parents == {"_lnP_0"}

\* ---------------------------------------------------- parameters (wdm.py)
ParamNames == {"wdm_mass", "wdm_transfer", "wdm_params", "wdm_alter",
               "omegac", "h", "mean_dens", "sigma_8", "z2"}

\* numpy.issubclass_(val, WDM)
issubclass_WDM(val) == val.kind = "class" /\ val.name \in WDMClasses

\* isinstance(val, basestring)
isinstance_basestring(val) == val.kind = "str"

\* TransferWDM.wdm_transfer
wdm_transfer_validate(val) ==
    IF ~issubclass_WDM(val) /\ ~isinstance_basestring(val)
    THEN Raise(Exc("ValueError", [text |-> "wdm_transfer must be a WDM subclass or string", key |-> val.kind]))
    ELSE Ok(val)

\* TransferWDM.wdm_params
wdm_params_validate(val) == Ok(val)

\* float(val): a number, or a string that spells one; anything else of a
\* string is a ValueError and any other object a TypeError
NumericStrings == [s \in {"1", "0"} |-> IF s = "1" THEN 1 ELSE 0]
float(val) ==
    IF val.kind = "num" THEN Ok(val.num)
    ELSE IF val.kind = "str"
    THEN IF val.name \in DOMAIN NumericStrings
         THEN Ok(NumericStrings[val.name])
         ELSE Raise(Exc("ValueError", [text |-> "could not convert string to float", key |-> val.name]))
    ELSE Raise(Exc("TypeError", [text |-> "float() argument must be a string or a number", key |-> val.kind]))

\* TransferWDM.wdm_mass with val < 0 in place of val <= 0
wdm_mass_validate_lt(val) ==
    LET f == float(val)
    IN IF f.err # None
       THEN IF f.err.type = "ValueError"
            THEN Raise(Exc("ValueError", [text |-> "wdm_mass must be a number", key |-> val.name]))
            ELSE f
       ELSE IF f.val < 0
            THEN Raise(Exc("ValueError", [text |-> "wdm_mass must be > 0", key |-> "val"]))
            ELSE f

\* TransferWDM.wdm_mass
wdm_mass_validate(val) ==
    LET f == float(val)
    IN IF f.err # None
       THEN IF f.err.type = "ValueError"
            THEN Raise(Exc("ValueError", [text |-> "wdm_mass must be a number", key |-> val.name]))
            ELSE f
       ELSE IF f.val <= 0
            THEN Raise(Exc("ValueError", [text |-> "wdm_mass must be > 0", key |-> "val"]))
            ELSE f

\* MassFunctionWDM.wdm_alter
wdm_alter_validate(val) == Ok(val)

\* --------------------------------------------- derived quantities: graph
Quantities == {"_wdm", "_lnP_0", "dndm"}
NotComputed == [notcomputed |-> TRUE]

\* @cached_property(...) of TransferWDM._lnP_0 with no parent named
wdm_lnP_0_parents_none == {}

\* the declaration of _wdm without "mean_dens"
wdm_parents_nodens == {"wdm_mass", "omegac", "h", "wdm_transfer", "wdm_params"}
\* the declaration of dndm without "wdm_alter"
wdm_dndm_parents_noalter == {"_wdm"}

\* @cached_property("mean_dens", "wdm_mass", "omegac", "h", "wdm_transfer", "wdm_params")
wdm_parents == {"mean_dens", "wdm_mass", "omegac", "h", "wdm_transfer", "wdm_params"}
\* @cached_property("_wdm") of TransferWDM._lnP_0
wdm_lnP_0_parents == {"_wdm"}
\* @cached_property("wdm_alter", "_wdm") of MassFunctionWDM.dndm
wdm_dndm_parents == {"wdm_alter", "_wdm"}

\* a quantity's parents: those its own declaration names and, for a quantity
\* that overrides one of a base framework, those of the declaration it overrides
Parents(q) ==
    IF q = "_wdm" THEN wdm_parents
    ELSE IF q = "_lnP_0" THEN wdm_lnP_0_parents \cup Transfer_lnP_0_parents
    ELSE wdm_dndm_parents \cup MassFunction_dndm_parents

\* the parameters a quantity depends on, through the quantities among its parents
RECURSIVE ParamsBehind(_)
ParamsBehind(q) ==
    (Parents(q) \cap ParamNames)
    \cup UNION {ParamsBehind(r) : r \in Parents(q) \cap Quantities}

\* a parameter's setter: the validated value is stored and, when it differs
\* from the stored one, every quantity that depends on the parameter is dropped
ParameterSet(p, c, name, val) ==
    IF val = p[name]
    THEN [params |-> p, cache |-> c]
    ELSE [params |-> [p EXCEPT ![name] = val],
          cache |-> [q \in Quantities |-> IF name \in ParamsBehind(q) THEN NotComputed ELSE c[q]]]

\* ------------------------------------------- derived quantities: bodies
\* the outcome of a read: the cache and the class attributes after it, the
\* value or the exception, and the bodies that ran
Outcome(c, D, res, ran) == [cache |-> c, defaults |-> D, res |-> res, ran |-> ran]

\* the outcome o with the bodies in ran added
AlsoRan(o, ran) == [o EXCEPT !.ran = @ \cup ran]

\* the getter @cached_property makes of a body: made is the body's outcome,
\* kept under the quantity's name when it is a value
Store(q, made) ==
    Outcome(IF made.res.err = None THEN [made.cache EXCEPT ![q] = made.res.val] ELSE made.cache,
            made.defaults, made.res, made.ran \cup {q})

\* the value the cache holds for q, with no body run
Cached(q, c, D) == Outcome(c, D, Ok(c[q]), {})

\* the outcome of a constructor call, as the outcome of a body
Built(c, made) == Outcome(c, made.defaults, made.res, {})

\* TransferWDM._wdm, the decorated body
wdm_body(p, D) ==
    IF issubclass_WDM(p.wdm_transfer)
    THEN WDM_init(p.wdm_transfer.name, p.wdm_mass, p.omegac, p.h, p.mean_dens, p.wdm_params, D)
    ELSE IF isinstance_basestring(p.wdm_transfer)
    THEN get_wdm(p.wdm_transfer.name, p.wdm_mass, p.omegac, p.h, p.mean_dens, p.wdm_params, D)
    ELSE [res |-> Ok(None), defaults |-> D]

\* a read of self._wdm
Get_wdm(p, c, D) ==
    IF c["_wdm"] # NotComputed THEN Cached("_wdm", c, D)
    ELSE Store("_wdm", Built(c, wdm_body(p, D)))

\* 2 * np.log(t) + lnp_cdm ; np.log raises nolog for None
lnP_0_sum(t, lnp_cdm, nolog) ==
    IF t = None
    THEN Raise(Exc(nolog, [text |-> "no log method", key |-> "NoneType"]))
    ELSE Ok(Array([i \in DOMAIN lnp_cdm.data |->
              T("add", <<T("mul", <<2, T("log", <<t.data[i]>>)>>), lnp_cdm.data[i]>>)]))

\* the rest of TransferWDM._lnP_0 once self._wdm has been read with outcome w
lnP_0_with(lnp_cdm, w, nolog) ==
    IF w.res.err # None THEN w
    ELSE [w EXCEPT !.res = lnP_0_sum(transfer(w.res.val, lnk), lnp_cdm, nolog)]

\* TransferWDM._lnP_0, the decorated body
lnP_0_body(p, c, D, nolog) ==
    AlsoRan(lnP_0_with(Transfer_lnP_0(p), Get_wdm(p, c, D), nolog), {"Transfer._lnP_0"})

\* a read of self._lnP_0
Get_lnP_0(p, c, D, nolog) ==
    IF c["_lnP_0"] # NotComputed THEN Cached("_lnP_0", c, D)
    ELSE Store("_lnP_0", lnP_0_body(p, c, D, nolog))

\* the suppression factor multiplied in twice
suppress_twice(dndm, mhm) ==
    Array([j \in DOMAIN dndm.data |->
              T("mul", <<T("mul", <<dndm.data[j],
                                    T("pow", <<T("add", <<1, T("div", <<mhm, M.data[j]>>)>>), -60>>)>>),
                         T("pow", <<T("add", <<1, T("div", <<mhm, M.data[j]>>)>>), -60>>)>>)])

\* dndm *= (1 + m_hm / M) ** -0.6, elementwise on the array     (-0.6 x100)
suppress(dndm, mhm) ==
    Array([j \in DOMAIN dndm.data |->
              T("mul", <<dndm.data[j],
                         T("pow", <<T("add", <<1, T("div", <<mhm, M.data[j]>>)>>), -60>>)>>)])

\* the multiplication once self._wdm.m_hm has been read with outcome mhm
suppress_with(dndm, mhm) ==
    IF mhm.err # None THEN mhm ELSE Ok(suppress(dndm, mhm.val))

\* if self.wdm_alter: dndm *= ..., once self._wdm has been read with outcome w
alter_with(dndm, w) ==
    IF w.res.err # None THEN w
    ELSE [w EXCEPT !.res = suppress_with(dndm, m_hm(w.res.val))]

\* the rest of MassFunctionWDM.dndm once the base dndm has read self._lnP_0
\* with outcome g and the suppression is applied whatever wdm_alter is
dndm_with_always(p, g) ==
    IF g.res.err # None THEN g
    ELSE AlsoRan(alter_with(MassFunction_dndm(g.res.val), Get_wdm(p, g.cache, g.defaults)), g.ran)

\* the rest of MassFunctionWDM.dndm once the base dndm has read self._lnP_0
\* with outcome g
dndm_with(p, g) ==
    IF g.res.err # None THEN g
    ELSE IF ~p.wdm_alter THEN [g EXCEPT !.res = Ok(MassFunction_dndm(g.res.val))]
    ELSE AlsoRan(alter_with(MassFunction_dndm(g.res.val), Get_wdm(p, g.cache, g.defaults)), g.ran)

\* MassFunctionWDM.dndm, the decorated body
dndm_body(p, c, D, nolog) ==
    AlsoRan(dndm_with(p, Get_lnP_0(p, c, D, nolog)), {"MassFunction.dndm"})

\* a read of self.dndm
Get_dndm(p, c, D, nolog) ==
    IF c["dndm"] # NotComputed THEN Cached("dndm", c, D)
    ELSE Store("dndm", dndm_body(p, c, D, nolog))

Get(q, p, c, D, nolog) ==
    IF q = "_wdm" THEN Get_wdm(p, c, D)
    ELSE IF q = "_lnP_0" THEN Get_lnP_0(p, c, D, nolog)
    ELSE Get_dndm(p, c, D, nolog)

\* ------------------------------------------------------------------ state
VARIABLES
    params,      \* the adapter's parameters, by name
    cache,       \* the adapter's derived quantities, by name, or NotComputed
    defaults,    \* the class attributes _defaults of the WDM classes
    out,         \* what the last operation on the adapter did and gave back
    orig,        \* history: dndm as last read with wdm_alter false, None once
                 \* any other parameter has changed since
    call,        \* the last direct call of a constructor, get_wdm or transfer
    heap,        \* the dict objects handed to wdm_params, by identity
    adapters,    \* two adapters side by side: None, or parameters and cache
    acted        \* which of the two adapters the last operation was on

pair == <<heap, adapters, acted>>
vars == <<params, cache, defaults, out, orig, call, pair>>

\* inputs of the operations
MassInputs == {Number(n) : n \in Masses \cup {0, -1}} \cup {Str("1"), Str("abc"), NoneObj}
VariantNames == {"Viel05", "WDM", "np", "get_wdm", "Bogus"}
TransferInputs == {Class("Viel05"), Class("WDM"), Class("object"), Number(42)}
                  \cup {Str(n) : n \in {"Viel05", "WDM", "Bogus"}}
AdapterDicts == {d \in ParamDicts : Cardinality(DOMAIN d) <= 1 /\ "g_x" \notin DOMAIN d}
BaseParams == {"omegac", "h", "mean_dens", "sigma_8", "z2"}
BaseDefaults == [omegac |-> 1, h |-> 1, mean_dens |-> 1, sigma_8 |-> 1, z2 |-> 1]
LogNoneErrors == {"AttributeError", "TypeError"}

NoOut == [op |-> "init", name |-> "-", arg |-> None, err |-> None, ret |-> None,
          ran |-> {}, stale |-> {}, changed |-> FALSE]
NoCall == [fn |-> "none"]

\* the two adapters, and the dict objects: the one object that the default
\* wdm_params={} of __init__ is, made once when the def statement runs, and
\* the dicts a caller makes for the one adapter or for the other
Instances == {1, 2}
DefaultDict == "wdm_params={}"
OwnDict(i) == IF i = 1 THEN "dict 1" ELSE "dict 2"
Objects == {DefaultDict} \cup {OwnDict(i) : i \in Instances}
Nobody == [who |-> 0, op |-> "none"]

\* MassFunctionWDM(): wdm_mass=3.0, wdm_transfer=Viel05, wdm_params={},
\* wdm_alter=False, the base frameworks' own defaults, nothing computed yet
Init ==
    /\ params = [wdm_mass |-> DefaultMass, wdm_transfer |-> Class("Viel05"),
                 wdm_params |-> [k \in {} |-> 0], wdm_alter |-> FALSE,
                 omegac |-> BaseDefaults.omegac, h |-> BaseDefaults.h,
                 mean_dens |-> BaseDefaults.mean_dens, sigma_8 |-> BaseDefaults.sigma_8,
                 z2 |-> BaseDefaults.z2]
    /\ cache = [q \in Quantities |-> NotComputed]
    /\ defaults = ClassDefaults
    /\ out = NoOut
    /\ orig = None
    /\ call = NoCall
    /\ heap = [o \in Objects |-> [k \in {} |-> 0]]
    /\ adapters = [i \in Instances |-> None]
    /\ acted = Nobody

\* self.<name> = <input>, r being what the parameter's validator makes of
\* it; shown is the name and the input of an assignment that is validated
Assigned(name, n, shown) ==
    /\ params' = n.params
    /\ cache' = n.cache
    /\ orig' = IF name # "wdm_alter" /\ n.params # params THEN None ELSE orig
    /\ out' = [NoOut EXCEPT !.op = "set", !.name = shown.name, !.arg = shown.arg,
                 !.stale = {q \in Quantities : cache[q] # NotComputed /\ n.cache[q] = NotComputed},
                 !.changed = (n.params # params)]

Assign(name, r, shown) ==
    /\ IF r.err # None
       THEN /\ UNCHANGED <<params, cache, orig>>
            /\ out' = [NoOut EXCEPT !.op = "set", !.name = shown.name, !.arg = shown.arg,
                                    !.err = r.err]
       ELSE Assigned(name, ParameterSet(params, cache, name, r.val), shown)
    /\ UNCHANGED <<defaults, call, pair>>

Unshown == [name |-> "-", arg |-> None]

SetWdmMass(val) == Assign("wdm_mass", wdm_mass_validate(val), [name |-> "wdm_mass", arg |-> val])
SetWdmTransfer(val) == Assign("wdm_transfer", wdm_transfer_validate(val), [name |-> "wdm_transfer", arg |-> val])
SetWdmParams(val) == Assign("wdm_params", wdm_params_validate(val), Unshown)
SetWdmAlter(val) == Assign("wdm_alter", wdm_alter_validate(val), Unshown)
SetBase(name, val) ==
    /\ Cardinality({n \in BaseParams : [params EXCEPT ![name] = val][n] # BaseDefaults[n]}) <= MaxOff
    /\ Assign(name, Ok(val), Unshown)

\* a read of the derived quantity q, g being what the getter gives
Read(q, g) ==
    /\ cache' = g.cache
    /\ defaults' = g.defaults
    /\ out' = [NoOut EXCEPT !.op = "read", !.name = q, !.err = g.res.err,
                            !.ret = g.res.val, !.ran = g.ran]
    /\ orig' = IF q = "dndm" /\ g.res.err = None /\ ~params.wdm_alter THEN g.res.val ELSE orig
    /\ UNCHANGED <<params, call, pair>>

Read_wdm == Read("_wdm", Get_wdm(params, cache, defaults))
Read_lnP_0 == \E nolog \in LogNoneErrors : Read("_lnP_0", Get_lnP_0(params, cache, defaults, nolog))
Read_dndm == \E nolog \in LogNoneErrors : Read("dndm", Get_dndm(params, cache, defaults, nolog))

Next ==
    \/ \E val \in MassInputs : SetWdmMass(val)
    \/ \E val \in TransferInputs : SetWdmTransfer(val)
    \/ \E val \in AdapterDicts : SetWdmParams(val)
    \/ \E val \in BOOLEAN : SetWdmAlter(val)
    \/ \E name \in BaseParams, val \in Cosmo : SetBase(name, val)
    \/ Read_wdm
    \/ Read_lnP_0
    \/ Read_dndm

Spec == Init /\ [][Next]_vars

\* ---------------------------------- direct use of the models and registry
\* cls(mx, omegac, h, rho_mean, **model_params)
Called(fn, name, mx, omegac, h, rho_mean, model_params, r) ==
    /\ call' = [fn |-> fn, name |-> name, mx |-> mx, omegac |-> omegac, h |-> h,
                rho_mean |-> rho_mean, model_params |-> model_params, res |-> r.res]
    /\ defaults' = r.defaults
    /\ UNCHANGED <<params, cache, out, orig, pair>>

Construct(cls, mx, omegac, h, rho_mean, model_params) ==
    Called("init", cls, mx, omegac, h, rho_mean, model_params,
           WDM_init(cls, mx, omegac, h, rho_mean, model_params, defaults))

\* get_wdm(name, mx=.., omegac=.., h=.., rho_mean=.., **model_params)
CallGetWdm(name, mx, omegac, h, rho_mean, model_params) ==
    Called("get_wdm", name, mx, omegac, h, rho_mean, model_params,
           get_wdm(name, mx, omegac, h, rho_mean, model_params, defaults))

\* model.transfer(lnk) on the model the last call made
CallTransfer ==
    /\ call.fn \in {"init", "get_wdm"}
    /\ call.res.err = None
    /\ call' = [fn |-> "transfer", name |-> call.res.val.cls, self |-> call.res.val,
                res |-> Ok(transfer(call.res.val, lnk))]
    /\ UNCHANGED <<params, cache, defaults, out, orig, pair>>

NextModel ==
    \/ \E cls \in WDMClasses, mx \in Masses, omegac \in Cosmo, h \in Cosmo,
          rho_mean \in Cosmo, mp \in ParamDicts :
            Construct(cls, mx, omegac, h, rho_mean, mp)
    \/ \E name \in VariantNames, mx \in Masses, omegac \in Cosmo, h \in Cosmo,
          rho_mean \in Cosmo, mp \in ParamDicts :
            CallGetWdm(name, mx, omegac, h, rho_mean, mp)
    \/ CallTransfer

SpecModel == Init /\ [][NextModel]_vars

\* ------------------------------------------------ two adapters side by side
\* what a parameter record holds for wdm_params is a reference to a dict
\* object; the parameters as the bodies see them have the dict itself
Deref(p, h) == [p EXCEPT !.wdm_params = h[p.wdm_params]]

\* the dicts a caller makes and the entries a caller puts into one
OwnContents == {d \in AdapterDicts : DOMAIN d \subseteq {"mu"}}
ModifyKeys == {"mu"}

\* the adapter that __init__ sets up when wdm_params is the object o:
\* self.wdm_params = wdm_params keeps the object it is handed
Constructed(o) ==
    [params |-> [wdm_mass |-> DefaultMass, wdm_transfer |-> Class("Viel05"),
                 wdm_params |-> o, wdm_alter |-> FALSE,
                 omegac |-> BaseDefaults.omegac, h |-> BaseDefaults.h,
                 mean_dens |-> BaseDefaults.mean_dens, sigma_8 |-> BaseDefaults.sigma_8,
                 z2 |-> BaseDefaults.z2],
     cache |-> [q \in Quantities |-> NotComputed]]

\* the last operation was op on adapter i
Acted(i, op) == acted' = [who |-> i, op |-> op]

\* adapters[i] = MassFunctionWDM(): wdm_params is the default object
NewDefault(i) ==
    /\ adapters[i] = None
    /\ adapters' = [adapters EXCEPT ![i] = Constructed(DefaultDict)]
    /\ Acted(i, "new")
    /\ UNCHANGED <<params, cache, defaults, out, orig, call, heap>>

\* adapters[i] = MassFunctionWDM(wdm_params=d), d a dict made for it
NewOwn(i, d) ==
    /\ adapters[i] = None
    /\ heap' = [heap EXCEPT ![OwnDict(i)] = d]
    /\ adapters' = [adapters EXCEPT ![i] = Constructed(OwnDict(i))]
    /\ Acted(i, "new")
    /\ UNCHANGED <<params, cache, defaults, out, orig, call>>

\* adapters[i].wdm_mass = val, r being what the validator makes of val
SetMassOn(i, r) ==
    /\ adapters[i] # None
    /\ adapters' = [adapters EXCEPT ![i] =
                      IF r.err # None THEN @
                      ELSE ParameterSet(@.params, @.cache, "wdm_mass", r.val)]
    /\ Acted(i, "set")
    /\ UNCHANGED <<params, cache, defaults, out, orig, call, heap>>

\* adapters[i].wdm_params = d, d a dict made for it and n what the setter
\* makes of it: a dict equal to the stored one leaves the stored one in place
SetParamsOn(i, d, n) ==
    /\ adapters[i] # None
    /\ IF n.params.wdm_params = heap[adapters[i].params.wdm_params]
       THEN UNCHANGED <<heap, adapters>>
       ELSE /\ heap' = [heap EXCEPT ![OwnDict(i)] = d]
            /\ adapters' = [adapters EXCEPT ![i].params.wdm_params = OwnDict(i),
                                            ![i].cache = n.cache]
    /\ Acted(i, "set")
    /\ UNCHANGED <<params, cache, defaults, out, orig, call>>

\* adapters[i].wdm_params[k] = v: the getter hands out the stored object and
\* the entry is put into it; no setter runs
Modify(i, k, v) ==
    /\ adapters[i] # None
    /\ heap' = [heap EXCEPT ![adapters[i].params.wdm_params] = DictUpdate(@, [x \in {k} |-> v])]
    /\ Acted(i, "modify")
    /\ UNCHANGED <<params, cache, defaults, out, orig, call, adapters>>

\* a read of the derived quantity q of adapters[i], g being what the getter gives
ReadOn(i, g) ==
    /\ adapters[i] # None
    /\ adapters' = [adapters EXCEPT ![i].cache = g.cache]
    /\ defaults' = g.defaults
    /\ Acted(i, "read")
    /\ UNCHANGED <<params, cache, out, orig, call, heap>>

\* the getter of q on an adapter a
GetOn(q, a, nolog) == Get(q, Deref(a.params, heap), a.cache, defaults, nolog)

NextPair ==
    \/ \E i \in Instances : NewDefault(i)
    \/ \E i \in Instances, d \in OwnContents : NewOwn(i, d)
    \/ \E i \in Instances, val \in {Number(n) : n \in Masses} :
          SetMassOn(i, wdm_mass_validate(val))
    \/ \E i \in Instances, d \in OwnContents :
          SetParamsOn(i, d, ParameterSet(Deref(adapters[i].params, heap), adapters[i].cache,
                                         "wdm_params", wdm_params_validate(d).val))
    \/ \E i \in Instances, k \in ModifyKeys, v \in ParamVals : Modify(i, k, v)
    \/ \E i \in Instances, q \in Quantities, nolog \in LogNoneErrors :
          ReadOn(i, GetOn(q, adapters[i], nolog))

SpecPair == Init /\ [][NextPair]_vars

\* ----------------------------------------------------------------- claims
\* the WDM model of the current parameter values, and its half-mode mass
CurrentWdm == wdm_body(params, defaults).res
CurrentFactor(j) == T("pow", <<T("add", <<1, T("div", <<m_hm(CurrentWdm.val).val, M.data[j]>>)>>), -60>>)

\* the CDM log power of the current parameter values plus twice the log of the
\* current model's transfer function, on the grid lnk
Expected_lnP_0 ==
    Array([i \in Grid |->
        T("add", <<T("mul", <<2, T("log", <<transfer(CurrentWdm.val, lnk).data[i]>>)>>),
                   Transfer_lnP_0(params).data[i]>>)])

\* the base mass function of the current parameter values, times the
\* suppression factor exactly once when wdm_alter is true
Expected_dndm ==
    IF params.wdm_alter
    THEN Array([j \in Grid |-> T("mul", <<MassFunction_dndm(Expected_lnP_0).data[j], CurrentFactor(j)>>)])
    ELSE MassFunction_dndm(Expected_lnP_0)

ReadOk(s, q) == s.op = "read" /\ s.name = q /\ s.err = None

\* C1: whatever parameters were assigned, the cached _lnP_0 and every value a
\* read of _lnP_0 returns is the CDM log power for the current parameters plus
\* 2 ln of the current model's transfer function; it is never stale.
C1_lnP_0_current ==
    /\ cache["_lnP_0"] # NotComputed => CurrentWdm.err = None /\ cache["_lnP_0"] = Expected_lnP_0
    /\ ReadOk(out, "_lnP_0") => out.ret = Expected_lnP_0

\* C1 witness: _lnP_0 was computed again, with _wdm served from the cache,
\* after sigma_8 (a parent of the base log power only) had been changed
C1_witness ==
    /\ ReadOk(out, "_lnP_0")
    /\ out.ran = {"Transfer._lnP_0", "_lnP_0"}
    /\ params.sigma_8 # BaseDefaults.sigma_8

\* C2: every read of dndm returns the base mass function for the current
\* parameters, multiplied by (1 + m_hm/M)^(-0.6) exactly once when wdm_alter
\* is true and not at all when it is false.
C2_dndm_suppressed_once ==
    /\ cache["dndm"] # NotComputed => CurrentWdm.err = None /\ cache["dndm"] = Expected_dndm
    /\ ReadOk(out, "dndm") => out.ret = Expected_dndm

\* C2 witness: dndm was computed again with wdm_alter true while _lnP_0 came
\* from the cache
C2_witness ==
    /\ ReadOk(out, "dndm")
    /\ params.wdm_alter
    /\ out.ran = {"MassFunction.dndm", "dndm"}

\* C3: with dndm read while wdm_alter was false and nothing but wdm_alter
\* assigned since (orig), a read of dndm gives orig times (1 + m_hm/M_i)^(-0.6)
\* at every entry when wdm_alter is true, and orig itself when it is false.
C3_toggle ==
    [][ReadOk(out', "dndm") /\ orig # None =>
         out'.ret = IF params.wdm_alter
                    THEN Array([j \in Grid |-> T("mul", <<orig.data[j], CurrentFactor(j)>>)])
                    ELSE orig]_vars

\* C3 witness: dndm read and computed with wdm_alter true after it had been
\* read with wdm_alter false
C3_witness ==
    /\ ReadOk(out, "dndm")
    /\ "dndm" \in out.ran
    /\ params.wdm_alter
    /\ orig # None

\* C4: a change of wdm_mass, wdm_transfer, wdm_params, omegac, h or the mean
\* density drops _wdm, _lnP_0 and dndm, each of which is computed by its next
\* read; a change of z2, which no dependency list names, drops nothing.
C4_invalidation ==
    [][/\ \A n \in {"wdm_mass", "wdm_transfer", "wdm_params", "omegac", "h", "mean_dens"} :
            params'[n] # params[n] => \A q \in Quantities : cache'[q] = NotComputed
       /\ \A q \in Quantities :
            out'.op = "read" /\ out'.name = q /\ cache[q] = NotComputed => q \in out'.ran
       /\ (out'.op = "read" /\ out'.name = "dndm" /\ \A q \in Quantities : cache[q] = NotComputed)
            => Quantities \subseteq out'.ran
       /\ params'.z2 # params.z2 => cache' = cache]_vars

\* C4 witness: one assignment dropped all three quantities, which were cached
C4_witness == out.op = "set" /\ out.changed /\ out.stale = Quantities

\* the parameters each quantity depends on, as the claims give them
ClaimedParams(q) ==
    IF q = "_wdm" THEN {"mean_dens", "wdm_mass", "omegac", "h", "wdm_transfer", "wdm_params"}
    ELSE IF q = "_lnP_0"
    THEN {"mean_dens", "wdm_mass", "omegac", "h", "wdm_transfer", "wdm_params", "sigma_8"}
    ELSE {"mean_dens", "wdm_mass", "omegac", "h", "wdm_transfer", "wdm_params", "sigma_8", "wdm_alter"}

IsError(e, type) == e # None /\ e.type = type

\* the keys of wdm_params that the variant wdm_transfer names does not know
UnknownKeys ==
    IF params.wdm_transfer.name \in WDMClasses
    THEN {k \in DOMAIN params.wdm_params : k \notin DOMAIN ClassDefaults[params.wdm_transfer.name]}
    ELSE {}

\* C6 as stated: no read of a derived quantity signals InvalidParameter
\* (ValueError); every such condition was signalled by an assignment.
C6_never_deferred == out.op = "read" => ~IsError(out.err, "ValueError")

\* C6 as amended: a non-positive wdm_mass and a wdm_transfer that is neither a
\* WDM class nor a string raise ValueError at the assignment and are never
\* stored; a wdm_params key the variant does not know is accepted by the
\* assignment and raises ValueError at the read that builds _wdm, the only
\* ValueError a read signals.
C6_mass_and_transfer_at_assignment ==
    /\ params.wdm_mass > 0
    /\ params.wdm_transfer.kind \in {"class", "str"}
    /\ params.wdm_transfer.kind = "class" => params.wdm_transfer.name \in WDMClasses
    /\ (out.op = "set" /\ out.name = "wdm_mass" /\ out.arg.kind = "num" /\ out.arg.num <= 0)
         => IsError(out.err, "ValueError")
    /\ (out.op = "set" /\ out.name = "wdm_transfer" /\ out.arg.kind # "str"
          /\ ~(out.arg.kind = "class" /\ out.arg.name \in WDMClasses))
         => IsError(out.err, "ValueError")
    /\ (out.op = "read" /\ IsError(out.err, "ValueError")) => UnknownKeys # {}
    /\ (out.op = "read" /\ UnknownKeys # {} /\ "name" \notin DOMAIN params.wdm_params)
         => IsError(out.err, "ValueError")

\* C6 witness: a read of dndm raised ValueError for a key of wdm_params that
\* the assignment had accepted
C6_witness ==
    /\ out.op = "read" /\ out.name = "dndm" /\ IsError(out.err, "ValueError")
    /\ "foo" \in DOMAIN params.wdm_params

\* C7 as stated: get_wdm returns an instance only for the name of a WDM class,
\* signals UnknownVariant (AttributeError) for every other name, and signals
\* it for no name of a WDM class.
C7_unknown_variant ==
    call.fn = "get_wdm" =>
        /\ call.res.err = None => call.name \in WDMClasses
        /\ call.name \notin WDMClasses => IsError(call.res.err, "AttributeError")
        /\ IsError(call.res.err, "AttributeError") => call.name \notin WDMClasses

\* C8 as stated: transfer(lnk) on the abstract WDM signals a NotImplemented
\* error and returns no value.
C8_abstract_transfer_raises ==
    (call.fn = "transfer" /\ call.name = "WDM") => IsError(call.res.err, "NotImplementedError")

\* C9: a constructor call with a key outside the variant's _defaults raises
\* ValueError and gives no instance; any other call gives an instance whose
\* params has exactly the keys of _defaults, a supplied key holding the
\* supplied value and any other its default; the class-level _defaults stay
\* as they were.
C9_constructor ==
    /\ defaults = ClassDefaults
    /\ call.fn = "init" =>
         IF \E k \in DOMAIN call.model_params : k \notin DOMAIN ClassDefaults[call.name]
         THEN IsError(call.res.err, "ValueError") /\ call.res.val = None
         ELSE /\ call.res.err = None
              /\ call.res.val.cls = call.name
              /\ DOMAIN call.res.val.params = DOMAIN ClassDefaults[call.name]
              /\ \A k \in DOMAIN ClassDefaults[call.name] :
                    call.res.val.params[k] = IF k \in DOMAIN call.model_params
                                             THEN call.model_params[k]
                                             ELSE ClassDefaults[call.name][k]

\* C9 witness: Viel05 constructed with mu supplied and g_x left to its default
C9_witness ==
    /\ call.fn = "init" /\ call.name = "Viel05" /\ call.res.err = None
    /\ DOMAIN call.model_params = {"mu"}

\* the current parameters with the variant named the other way: the class
\* for its name, the name for the class
Twin ==
    [params EXCEPT !.wdm_transfer =
        IF @.kind = "class" THEN Str(@.name) ELSE Class(@.name)]

\* C10: for each WDM class, the adapter given the class and the adapter given
\* its name, the other parameters alike, either both fail to build _wdm or
\* build equal models (class, mx, omegac, h, rho_mean, params) and then give
\* equal _lnP_0.
C10_name_or_class ==
    params.wdm_transfer.name \in WDMClasses =>
        /\ (CurrentWdm.err = None) <=> (wdm_body(Twin, defaults).res.err = None)
        /\ CurrentWdm.err = None => wdm_body(Twin, defaults).res.val = CurrentWdm.val
        /\ cache["_wdm"] # NotComputed => wdm_body(Twin, defaults).res.val = cache["_wdm"]
        /\ cache["_lnP_0"] # NotComputed =>
             Get_lnP_0(Twin, [q \in Quantities |-> NotComputed], defaults, "TypeError").res.val
                = cache["_lnP_0"]

\* C10 witness: _lnP_0 computed by an adapter whose wdm_transfer is the string
\* "Viel05", with a wdm_mass other than the default
C10_witness ==
    /\ params.wdm_transfer = Str("Viel05")
    /\ params.wdm_mass # DefaultMass
    /\ cache["_lnP_0"] # NotComputed

\* what an adapter a shows: its parameter values, its cached values, and
\* what a read of each derived quantity gives
ViewOf(a, h, D) ==
    [params |-> Deref(a.params, h),
     cache |-> a.cache,
     results |-> [q \in Quantities |-> [nolog \in LogNoneErrors |->
                    Get(q, Deref(a.params, h), a.cache, D, nolog).res]]]

\* the operations on one adapter that must leave the other alone
OwnOperations == {"set", "modify", "read"}

\* C11: each adapter owns its parameters and its cache: a parameter
\* assignment, a modification of its wdm_params mapping or a read of a
\* derived quantity on one adapter changes no parameter value, no cached
\* value and no derived-quantity result of the other adapter, adapters
\* constructed with the default wdm_params included
C11_instances_independent ==
    [][\A i \in Instances, j \in Instances :
          (i # j /\ acted'.who = i /\ acted'.op \in OwnOperations /\ adapters[j] # None)
              => ViewOf(adapters'[j], heap', defaults') = ViewOf(adapters[j], heap, defaults)]_vars
====
